---- MODULE Spec2Model ----
(***************************************************************************)
(* A model of kungpao/utils.py: normalize_angle, weighted_median,          *)
(* check_random_state, seg_index_cen_obj / image_clean_up and              *)
(* table_pair_match_physical.                                              *)
(*                                                                         *)
(* Numbers are integers: an angle, a pixel value or a coordinate is an     *)
(* integer number of its unit, so that the comparisons and the modulo of   *)
(* the source are exact.  Each function has its own specification          *)
(* (SpecNorm, SpecSeed, SpecClean, SpecPair, SpecMedian) over its own      *)
(* variables; the variables of the other functions stay at the idle values *)
(* its initial condition gives them.                                       *)
(***************************************************************************)
EXTENDS Integers, Sequences, FiniteSets, TLC

VARIABLES na_pc, na_args, na_res, na_res2,
          rs_pc, rs_seed, rs_res,
          pm_pc, pm_cat1, pm_cat2, pm_r_kpc, pm_include, pm_i,
          pm_num_pair, pm_index_pair, pm_ret,
          ic_pc, ic_img, ic_sig, ic_seg_1, ic_seg_2, ic_seg_3,
          ic_scale, ic_noise, ic_img_clean,
          wm_pc, wm_data, wm_weights, wm_weighted, wm_res

na_vars == <<na_pc, na_args, na_res, na_res2>>
rs_vars == <<rs_pc, rs_seed, rs_res>>

pm_vars ==
    <<pm_pc, pm_cat1, pm_cat2, pm_r_kpc, pm_include, pm_i,
      pm_num_pair, pm_index_pair, pm_ret>>

ic_vars ==
    <<ic_pc, ic_img, ic_sig, ic_seg_1, ic_seg_2, ic_seg_3,
      ic_scale, ic_noise, ic_img_clean>>

wm_vars == <<wm_pc, wm_data, wm_weights, wm_weighted, wm_res>>

vars == <<na_vars, rs_vars, pm_vars, ic_vars, wm_vars>>

Abs(x) == IF x < 0 THEN -x ELSE x

\* A call's outcome: a returned value, or the exception it raised.
Returned(v) == [exc |-> "none", val |-> v]
Raised(e) == [exc |-> e, val |-> 0]
NoResult == [exc |-> "pending", val |-> 0]

\* A seed without items (every seed but a list).
Scalar(k, v) == [kind |-> k, val |-> v, items |-> <<>>]

\* A generator state: where it comes from and the key that seeded it.
Generator(o, k) == [origin |-> o, key |-> k]
NoGenerator == Generator("none", <<>>)

RsReturned(g) == [exc |-> "none", rs |-> g]
RsRaised(e) == [exc |-> e, rs |-> NoGenerator]
RsPending == [exc |-> "pending", rs |-> NoGenerator]

\* What weighted_median gives: a number, carried doubled (twice = 3 is 1.5)
\* so that the mean of two integers is an integer; None; or an exception.
MedianValue(t) == [exc |-> "none", none |-> FALSE, twice |-> t]
MedianNone == [exc |-> "none", none |-> TRUE, twice |-> 0]
MedianRaised(e) == [exc |-> e, none |-> FALSE, twice |-> 0]
MedianPending == [exc |-> "pending", none |-> FALSE, twice |-> 0]

\* What table_pair_match_physical has returned: nothing yet.
NoReturn == [returned |-> FALSE, num_pair |-> <<>>, index_pair |-> <<>>]

(***************************************************************************)
(* normalize_angle                                                         *)
(***************************************************************************)

\* Largest |num| and largest |lower|, |upper| of the calls explored.
MaxAngle == 9
MaxLimit == 3

\* Variant of normalize_range_invalid: the limits are rejected only when
\* lower > upper.
normalize_range_invalid_gt(lower, upper) == lower > upper

\* The validation of the non-b branch: `if lower >= upper: raise ValueError`.
normalize_range_invalid(lower, upper) == lower >= upper

\* `if num > upper or num == lower: num = lower + abs(num + upper) % (abs(lower) + abs(upper))`
normalize_wrap_up(num, lower, upper) ==
    IF num > upper \/ num = lower
    THEN lower + (Abs(num + upper) % (Abs(lower) + Abs(upper)))
    ELSE num

\* `if num < lower or num == upper: num = upper - abs(num - lower) % (abs(lower) + abs(upper))`
normalize_wrap_down(num, lower, upper) ==
    IF num < lower \/ num = upper
    THEN upper - (Abs(num - lower) % (Abs(lower) + Abs(upper)))
    ELSE num

\* The non-b branch after its validation.
normalize_open(num, lower, upper) ==
    LET n1 == normalize_wrap_up(num, lower, upper)
        n2 == normalize_wrap_down(n1, lower, upper)
    IN  Returned(IF n2 = upper THEN lower ELSE n2)

\* The b branch.  total_length = 0 makes the true division of the first two
\* steps a division by zero (ZeroDivisionError).
normalize_closed(num, lower, upper) ==
    LET total_length == Abs(lower) + Abs(upper)
        step1 == IF num < -total_length
                 THEN num + (((-num) + 2 * total_length - 1) \div (2 * total_length))
                            * 2 * total_length
                 ELSE num
        step2 == IF step1 > total_length
                 THEN step1 - (step1 \div (2 * total_length)) * 2 * total_length
                 ELSE step1
        step3 == IF step2 > upper THEN total_length - step2 ELSE step2
        step4 == IF step3 < lower THEN -total_length - step3 ELSE step3
    IN  IF total_length = 0 /\ num # 0
        THEN Raised("ZeroDivisionError")
        ELSE Returned(step4)

normalize_angle(num, lower, upper, b) ==
    IF ~b
    THEN IF normalize_range_invalid(lower, upper)
         THEN Raised("ValueError")
         ELSE normalize_open(num, lower, upper)
    ELSE normalize_closed(num, lower, upper)

NormArgs ==
    [num : -MaxAngle..MaxAngle, lower : -MaxLimit..MaxLimit,
     upper : -MaxLimit..MaxLimit, b : BOOLEAN]

InitNorm ==
    /\ na_pc = "start"
    /\ na_args \in NormArgs
    /\ na_res = NoResult
    /\ na_res2 = NoResult
    /\ rs_pc = "idle"
    /\ rs_seed = Scalar("None", 0)
    /\ rs_res = RsPending
    /\ pm_pc = "idle"
    /\ pm_cat1 = <<>>
    /\ pm_cat2 = <<>>
    /\ pm_r_kpc = 0
    /\ pm_include = FALSE
    /\ pm_i = 0
    /\ pm_num_pair = <<>>
    /\ pm_index_pair = <<>>
    /\ pm_ret = NoReturn
    /\ ic_pc = "idle"
    /\ ic_img = <<>>
    /\ ic_sig = "None"
    /\ ic_seg_1 = <<>>
    /\ ic_seg_2 = <<>>
    /\ ic_seg_3 = <<>>
    /\ ic_scale = <<>>
    /\ ic_noise = <<>>
    /\ ic_img_clean = <<>>
    /\ wm_pc = "idle"
    /\ wm_data = <<>>
    /\ wm_weights = <<>>
    /\ wm_weighted = FALSE
    /\ wm_res = MedianPending

\* normalize_angle(num, lower, upper, b)
NormalizeCall ==
    /\ na_pc = "start"
    /\ na_res' = normalize_angle(na_args.num, na_args.lower, na_args.upper, na_args.b)
    /\ na_pc' = "called"
    /\ UNCHANGED <<na_args, na_res2>>
    /\ UNCHANGED <<rs_vars, pm_vars, ic_vars, wm_vars>>

\* normalize_angle applied to the value the first call returned.
NormalizeAgain ==
    /\ na_pc = "called"
    /\ na_res.exc = "none"
    /\ na_res2' = normalize_angle(na_res.val, na_args.lower, na_args.upper, na_args.b)
    /\ na_pc' = "again"
    /\ UNCHANGED <<na_args, na_res>>
    /\ UNCHANGED <<rs_vars, pm_vars, ic_vars, wm_vars>>

(***************************************************************************)
(* check_random_state                                                      *)
(*                                                                         *)
(* A seed is [kind, val, items]: kind "int" carries the integer val; kind  *)
(* "float" carries a finite float as val halves (val = 3 is 1.5); "nan"    *)
(* and "inf" are the non-finite floats; "RandomState" carries the identity *)
(* val of an existing generator; "list" carries items, a sequence of       *)
(* [kind, val] elements; "None", "np.random" and "str" carry nothing.      *)
(***************************************************************************)

\* Largest integer seed, and longest list seed, of the calls explored.
MaxSeed == 2
MaxSeedLen == 3

SeedElems ==
    [kind : {"int"}, val : -1..MaxSeed] \cup [kind : {"float"}, val : {1}]
        \cup [kind : {"str"}, val : {0}]

SeedLists == UNION {[1..n -> SeedElems] : n \in 0..MaxSeedLen}

Seeds ==
    {Scalar("None", 0), Scalar("np.random", 0), Scalar("str", 0),
     Scalar("nan", 0), Scalar("inf", 0)}
        \cup {Scalar("int", v) : v \in -1..MaxSeed}
        \cup {Scalar("float", h) : h \in -3..(2 * MaxSeed + 1)}
        \cup {Scalar("RandomState", i) : i \in 1..2}
        \cup {[kind |-> "list", val |-> 0, items |-> l] : l \in SeedLists}

\* int(seed) of a finite float given in halves: truncation toward zero.
IntOfHalves(h) == IF h >= 0 THEN h \div 2 ELSE -((-h) \div 2)

\* numpy.random.RandomState(seed) for an integer: a seed below 0 (or above
\* 2**32 - 1, beyond the integers explored) is a ValueError.
RandomStateInt(v) ==
    IF v < 0 THEN RsRaised("ValueError") ELSE RsReturned(Generator("new", <<v>>))

\* numpy.random.RandomState(seed) for a list: the elements are cast safely
\* to integers (TypeError otherwise) and must lie in 0..2**32 - 1.
RandomStateList(l) ==
    IF \E i \in 1..Len(l) : l[i].kind # "int"
    THEN RsRaised("TypeError")
    ELSE IF \E i \in 1..Len(l) : l[i].val < 0
         THEN RsRaised("ValueError")
         ELSE RsReturned(Generator("new", [i \in 1..Len(l) |-> l[i].val]))

\* Variant of seed_is_real: a float is not taken as a seed.
seed_is_real_never(seed) == FALSE

\* `isinstance(seed, (numbers.Real))`, reached by the floats only.
seed_is_real(seed) == seed.kind \in {"float", "nan", "inf"}

\* `isinstance(seed[0], (numbers.Integral, np.integer))`
seed_list_head_ok(seed) == seed.items[1].kind = "int"

check_random_state(seed) ==
    IF seed.kind \in {"None", "np.random"}
    THEN RsReturned(Generator("global", <<>>))
    ELSE IF seed.kind = "int"
    THEN RandomStateInt(seed.val)
    ELSE IF seed_is_real(seed)
    THEN IF seed.kind = "nan" THEN RsRaised("ValueError")
         ELSE IF seed.kind = "inf" THEN RsRaised("OverflowError")
         ELSE RandomStateInt(IntOfHalves(seed.val))
    ELSE IF seed.kind = "RandomState"
    THEN RsReturned(Generator("given", <<seed.val>>))
    ELSE IF seed.kind = "list" /\ Len(seed.items) = 0
    THEN RsRaised("IndexError")
    ELSE IF seed.kind = "list" /\ seed_list_head_ok(seed)
    THEN RandomStateList(seed.items)
    ELSE RsRaised("ValueError")

InitSeed ==
    /\ rs_pc = "start"
    /\ rs_seed \in Seeds
    /\ rs_res = RsPending
    /\ na_pc = "idle"
    /\ na_args = [num |-> 0, lower |-> 0, upper |-> 0, b |-> FALSE]
    /\ na_res = NoResult
    /\ na_res2 = NoResult
    /\ pm_pc = "idle"
    /\ pm_cat1 = <<>>
    /\ pm_cat2 = <<>>
    /\ pm_r_kpc = 0
    /\ pm_include = FALSE
    /\ pm_i = 0
    /\ pm_num_pair = <<>>
    /\ pm_index_pair = <<>>
    /\ pm_ret = NoReturn
    /\ ic_pc = "idle"
    /\ ic_img = <<>>
    /\ ic_sig = "None"
    /\ ic_seg_1 = <<>>
    /\ ic_seg_2 = <<>>
    /\ ic_seg_3 = <<>>
    /\ ic_scale = <<>>
    /\ ic_noise = <<>>
    /\ ic_img_clean = <<>>
    /\ wm_pc = "idle"
    /\ wm_data = <<>>
    /\ wm_weights = <<>>
    /\ wm_weighted = FALSE
    /\ wm_res = MedianPending

\* check_random_state(seed)
CheckRandomState ==
    /\ rs_pc = "start"
    /\ rs_res' = check_random_state(rs_seed)
    /\ rs_pc' = "done"
    /\ UNCHANGED rs_seed
    /\ UNCHANGED <<na_vars, pm_vars, ic_vars, wm_vars>>

(***************************************************************************)
(* table_pair_match_physical                                               *)
(*                                                                         *)
(* A catalog is a sequence of rows [ra, dec, z_best].  Sky coordinates are *)
(* carried in arcseconds (degrees * 3600) and the rows explored lie on the *)
(* equator (dec = 0), where the great-circle separation the source gets    *)
(* from atan2(|cross|, dot) is the shorter arc between the two right       *)
(* ascensions.  A redshift is carried in tenths (z_best = 1 is z = 0.1).   *)
(***************************************************************************)

\* Longest catalog 1 and catalog 2 of the calls explored.
MaxCat1 == 2
MaxCat2 == 3

FullCircle == 360 * 3600
HalfCircle == 180 * 3600

Row(ra, dec, z) == [ra |-> ra, dec |-> dec, z_best |-> z]

RaValues == {0, 10, FullCircle - 5}

Cat1Rows == {Row(ra, 0, z) : ra \in RaValues, z \in {1, 10}}
Cat2Rows == {Row(ra, 0, 1) : ra \in RaValues}

Catalogs(rows, n) == UNION {[1..k -> rows] : k \in 0..n}

RadiusValues == {20, 100}

\* Kpc per arcsecond at a redshift, cosmo.Da(0.0, redshift) / 206.264806 under
\* cosmo_erin (H0 = 70, omega_m = 0.3), to the nearest integer: 1.84 at
\* z = 0.1 and 8.0 at z = 1.
kpc_scale_erin(redshift) == IF redshift = 1 THEN 2 ELSE 8

\* The separation in arcseconds of two points of the equator.
great_circle(ra_1, ra_2) ==
    LET d == Abs(ra_1 - ra_2) % FullCircle
    IN  IF d > HalfCircle THEN FullCircle - d ELSE d

\* The separations of one point from every row of a catalog, in its order.
angular_distance(ra_1, dec_1, cat) ==
    [j \in 1..Len(cat) |-> great_circle(ra_1, cat[j].ra)]

\* `sep < r_kpc`
pair_within(sep, r_kpc) == sep < r_kpc

\* `np.where(sep < r_kpc)`: the positions (from 0) of the rows that match.
pair_where(sep, r_kpc) ==
    {j - 1 : j \in {k \in 1..Len(sep) : pair_within(sep[k], r_kpc)}}

\* Variant of pair_count: the include flag is not looked at.
pair_count_plain(sep, r_kpc, include) ==
    Cardinality({k \in 1..Len(sep) : pair_within(sep[k], r_kpc)})

\* Variant of pair_count: include = False takes the self-match off.
pair_count_flipped(sep, r_kpc, include) ==
    LET n == Cardinality({k \in 1..Len(sep) : pair_within(sep[k], r_kpc)})
    IN  IF include THEN n ELSE n - 1

\* `np.sum(sep < r_kpc) - 1` if include, else `np.sum(sep < r_kpc)`
pair_count(sep, r_kpc, include) ==
    LET n == Cardinality({k \in 1..Len(sep) : pair_within(sep[k], r_kpc)})
    IN  IF include THEN n - 1 ELSE n

\* Variant of pair_append: the new entry goes to the front.
pair_append_front(list, x) == <<x>> \o list

\* `num_pair.append(...)`, `index_pair.append(...)`
pair_append(list, x) == Append(list, x)

\* sep of the loop body: the separations of obj1 scaled to kpc.
pair_sep(obj1, cat2) ==
    LET ang == angular_distance(obj1.ra, obj1.dec, cat2)
    IN  [j \in 1..Len(cat2) |-> ang[j] * kpc_scale_erin(obj1.z_best)]

\* The call has bound its arguments and made its two empty lists.
InitPair ==
    /\ pm_pc = "loop"
    /\ pm_cat1 \in Catalogs(Cat1Rows, MaxCat1)
    /\ pm_cat2 \in Catalogs(Cat2Rows, MaxCat2)
    /\ pm_r_kpc \in RadiusValues
    /\ pm_include \in BOOLEAN
    /\ pm_i = 1
    /\ pm_num_pair = <<>>
    /\ pm_index_pair = <<>>
    /\ pm_ret = NoReturn
    /\ na_pc = "idle"
    /\ na_args = [num |-> 0, lower |-> 0, upper |-> 0, b |-> FALSE]
    /\ na_res = NoResult
    /\ na_res2 = NoResult
    /\ rs_pc = "idle"
    /\ rs_seed = Scalar("None", 0)
    /\ rs_res = RsPending
    /\ ic_pc = "idle"
    /\ ic_img = <<>>
    /\ ic_sig = "None"
    /\ ic_seg_1 = <<>>
    /\ ic_seg_2 = <<>>
    /\ ic_seg_3 = <<>>
    /\ ic_scale = <<>>
    /\ ic_noise = <<>>
    /\ ic_img_clean = <<>>
    /\ wm_pc = "idle"
    /\ wm_data = <<>>
    /\ wm_weights = <<>>
    /\ wm_weighted = FALSE
    /\ wm_res = MedianPending

\* One pass of `for obj1 in cat1`.
PairLoopBody ==
    /\ pm_pc = "loop"
    /\ pm_i <= Len(pm_cat1)
    /\ LET sep == pair_sep(pm_cat1[pm_i], pm_cat2)
       IN  /\ pm_num_pair' = pair_append(pm_num_pair, pair_count(sep, pm_r_kpc, pm_include))
           /\ pm_index_pair' = pair_append(pm_index_pair, pair_where(sep, pm_r_kpc))
    /\ pm_i' = pm_i + 1
    /\ UNCHANGED <<pm_pc, pm_cat1, pm_cat2, pm_r_kpc, pm_include, pm_ret>>
    /\ UNCHANGED <<na_vars, rs_vars, ic_vars, wm_vars>>

\* `return np.asarray(num_pair), index_pair`
PairReturn ==
    /\ pm_pc = "loop"
    /\ pm_i > Len(pm_cat1)
    /\ pm_ret' = [returned |-> TRUE, num_pair |-> pm_num_pair,
                  index_pair |-> pm_index_pair]
    /\ pm_pc' = "done"
    /\ UNCHANGED <<pm_cat1, pm_cat2, pm_r_kpc, pm_include, pm_i,
                   pm_num_pair, pm_index_pair>>
    /\ UNCHANGED <<na_vars, rs_vars, ic_vars, wm_vars>>

(***************************************************************************)
(* seg_index_cen_obj and image_clean_up                                    *)
(*                                                                         *)
(* An image, a segmentation map or a mask is a function on Pixels, the     *)
(* <<row, column>> pairs of the image's shape.  Intensities are integer    *)
(* multiples of 1E-8, the value that replaces a non-positive RMS.  What    *)
(* sep.Background and sep.extract return is chosen by the environment: a   *)
(* segmentation map is any map of SegMaps, the maps with one rectangular   *)
(* object (or none) on a ground of one other label.                        *)
(***************************************************************************)

\* The shape of the image, and the largest label of a segmentation map.
Rows == 1
Cols == 2
MaxLabel == 1

Pixels == (0..(Rows - 1)) \X (0..(Cols - 1))

Rect(r0, r1, c0, c1) ==
    {p \in Pixels : r0 <= p[1] /\ p[1] <= r1 /\ c0 <= p[2] /\ p[2] <= c1}

Rects ==
    {Rect(r0, r1, c0, c1) :
        r0 \in 0..(Rows - 1), r1 \in 0..(Rows - 1),
        c0 \in 0..(Cols - 1), c1 \in 0..(Cols - 1)}

\* Segmentation maps: 0 is the background, a label above 0 an object.
SegMaps ==
    {[p \in Pixels |-> IF p \in R THEN a ELSE b] :
        R \in Rects, a \in 1..MaxLabel, b \in 0..MaxLabel}
            \cup {[p \in Pixels |-> 0]}

Images == {[p \in Pixels |-> 50], [p \in Pixels |-> 50 + 10 * p[1] + p[2]]}

NoMap == [p \in Pixels |-> 0]

\* `sky_sig[sky_sig <= 0] = 1E-8`
RmsFloor == 1

\* bkg_3: the global sky level and RMS, and the per-pixel sky level and RMS.
Backgrounds ==
    [globalback : {40}, globalrms : {0, 3},
     back : {[p \in Pixels |-> 40 + p[2]]},
     rms : {[p \in Pixels |-> 3], [p \in Pixels |-> IF p[2] = 0 THEN 0 ELSE 3]}]

\* The standard-normal draws of np.random.normal, one per pixel.
Draws ==
    {[p \in Pixels |-> IF (p[1] + p[2]) % 2 = 0 THEN s ELSE -s] : s \in {-1, 1}}

\* The scale np.random.normal is given at each pixel.
noise_scale(sig, bkg_3) ==
    IF sig = "None"
    THEN [p \in Pixels |-> bkg_3.globalrms]
    ELSE [p \in Pixels |-> IF bkg_3.rms[p] <= 0 THEN RmsFloor ELSE bkg_3.rms[p]]

\* The location np.random.normal is given at each pixel.
noise_loc(sig, bkg_3) ==
    IF sig = "None" THEN [p \in Pixels |-> bkg_3.globalback] ELSE bkg_3.back

\* Variant of seg_center: the first pixel is taken for the centre.
seg_center_origin == <<0, 0>>

\* `int(seg.shape[0] / 2L), int(seg.shape[1] / 2L)`
seg_center == <<Rows \div 2, Cols \div 2>>

\* Variant of seg_index_cen_obj: the mask is never found.
seg_index_cen_obj_none(seg) == [found |-> FALSE, mask |-> {}]

\* seg_index_cen_obj: None when the centre is background, else the pixels
\* that carry the centre's label.
seg_index_cen_obj(seg) ==
    LET cen_obj == seg[seg_center]
    IN  IF cen_obj = 0
        THEN [found |-> FALSE, mask |-> {}]
        ELSE [found |-> TRUE, mask |-> {p \in Pixels : seg[p] = cen_obj}]

\* `seg_comb = (seg_2 + seg_3)`, then `seg_comb[obj_cen_mask] = 0` when a
\* central object was found.
seg_combine(seg_1, seg_2, seg_3) ==
    LET obj_cen_mask == seg_index_cen_obj(seg_1)
    IN  [p \in Pixels |->
            IF obj_cen_mask.found /\ p \in obj_cen_mask.mask
            THEN 0
            ELSE seg_2[p] + seg_3[p]]

\* Variant of noise_replace: the flagged pixels are set to 0.
noise_replace_zero(img, seg, noise) ==
    [p \in Pixels |-> IF seg[p] > 0 THEN 0 ELSE img[p]]

\* `out = copy.deepcopy(img); out[seg > 0] = noise[seg > 0]`
noise_replace(img, seg, noise) ==
    [p \in Pixels |-> IF seg[p] > 0 THEN noise[p] ELSE img[p]]

InitClean ==
    /\ ic_pc = "start"
    /\ ic_img \in Images
    /\ ic_sig \in {"None", "map"}
    /\ ic_seg_1 = NoMap
    /\ ic_seg_2 = NoMap
    /\ ic_seg_3 = NoMap
    /\ ic_scale = NoMap
    /\ ic_noise = NoMap
    /\ ic_img_clean = NoMap
    /\ wm_pc = "idle"
    /\ wm_data = <<>>
    /\ wm_weights = <<>>
    /\ wm_weighted = FALSE
    /\ wm_res = MedianPending
    /\ na_pc = "idle"
    /\ na_args = [num |-> 0, lower |-> 0, upper |-> 0, b |-> FALSE]
    /\ na_res = NoResult
    /\ na_res2 = NoResult
    /\ rs_pc = "idle"
    /\ rs_seed = Scalar("None", 0)
    /\ rs_res = RsPending
    /\ pm_pc = "idle"
    /\ pm_cat1 = <<>>
    /\ pm_cat2 = <<>>
    /\ pm_r_kpc = 0
    /\ pm_include = FALSE
    /\ pm_i = 0
    /\ pm_num_pair = <<>>
    /\ pm_index_pair = <<>>
    /\ pm_ret = NoReturn

\* bkg_1 and `obj_1, seg_1 = sep.extract(img - bkg_1.back(), ...)`
CleanDetect1 ==
    /\ ic_pc = "start"
    /\ ic_seg_1' \in SegMaps
    /\ ic_pc' = "pass1"
    /\ UNCHANGED <<ic_img, ic_sig, ic_seg_2, ic_seg_3, ic_scale, ic_noise, ic_img_clean>>
    /\ UNCHANGED <<na_vars, rs_vars, pm_vars, wm_vars>>

\* bkg_2 and `obj_2, seg_2 = sep.extract(img, ...)`
CleanDetect2 ==
    /\ ic_pc = "pass1"
    /\ ic_seg_2' \in SegMaps
    /\ ic_pc' = "pass2"
    /\ UNCHANGED <<ic_img, ic_sig, ic_seg_1, ic_seg_3, ic_scale, ic_noise, ic_img_clean>>
    /\ UNCHANGED <<na_vars, rs_vars, pm_vars, wm_vars>>

\* bkg_3 and `noise = np.random.normal(loc, scale, size=img.shape)`
CleanNoise ==
    /\ ic_pc = "pass2"
    /\ \E bkg_3 \in Backgrounds, draw \in Draws :
          LET loc == noise_loc(ic_sig, bkg_3)
              scale == noise_scale(ic_sig, bkg_3)
          IN  /\ ic_scale' = scale
              /\ ic_noise' = [p \in Pixels |-> loc[p] + draw[p] * scale[p]]
    /\ ic_pc' = "noise"
    /\ UNCHANGED <<ic_img, ic_sig, ic_seg_1, ic_seg_2, ic_seg_3, ic_img_clean>>
    /\ UNCHANGED <<na_vars, rs_vars, pm_vars, wm_vars>>

\* img_noise_replace, `obj_3, seg_3 = sep.extract(img_noise_replace, ...)`,
\* seg_comb, the central object's exclusion and img_clean, which is returned.
CleanFinish ==
    /\ ic_pc = "noise"
    /\ ic_seg_3' \in SegMaps
    /\ ic_img_clean' =
          noise_replace(ic_img, seg_combine(ic_seg_1, ic_seg_2, ic_seg_3'), ic_noise)
    /\ ic_pc' = "done"
    /\ UNCHANGED <<ic_img, ic_sig, ic_seg_1, ic_seg_2, ic_scale, ic_noise>>
    /\ UNCHANGED <<na_vars, rs_vars, pm_vars, wm_vars>>

(***************************************************************************)
(* weighted_median                                                         *)
(*                                                                         *)
(* data and weights are lists of integers.  midpoint = 0.5 * sum(weights)  *)
(* is carried doubled, as sum(weights): `x > midpoint` is 2 * x > total.   *)
(***************************************************************************)

\* Longest list, largest datum and largest weight of the calls explored.
MaxMedLen == 3
MaxDatum == 2
MaxWeight == 3

RECURSIVE SeqSum(_)
\* `sum(weights)`, `sum(bounds)`
SeqSum(seq) == IF seq = <<>> THEN 0 ELSE seq[1] + SeqSum(Tail(seq))

\* The pairs (a, b) and (c, d) in the order Python sorts tuples.
PairLeq(a, b, c, d) == a < c \/ (a = c /\ b <= d)

\* `sorted(zip(data, weights))`: the order in which the pairs are taken.
sorted_order(data, weights) ==
    LET n == Len(data)
    IN  CHOOSE f \in [1..n -> 1..n] :
            /\ \A i, j \in 1..n : i # j => f[i] # f[j]
            /\ \A i \in 1..(n - 1) :
                  PairLeq(data[f[i]], weights[f[i]], data[f[i + 1]], weights[f[i + 1]])

\* `seq[a:b]` for an a that may be negative and a b within 0..len(seq).
PySlice(seq, a, b) ==
    LET start == IF a < 0 THEN (IF Len(seq) + a < 0 THEN 0 ELSE Len(seq) + a) ELSE a
    IN  IF start >= b THEN <<>> ELSE SubSeq(seq, start + 1, b)

\* np.median(data): the middle of the sorted data, the mean of the two
\* middle values for an even length.
np_median(data) ==
    LET n == Len(data)
        f == sorted_order(data, data)
    IN  IF n % 2 = 1
        THEN MedianValue(2 * data[f[(n + 1) \div 2]])
        ELSE MedianValue(data[f[n \div 2]] + data[f[n \div 2 + 1]])

\* Variant of median_first_max: the first position of the smallest weight.
median_first_min(weights) ==
    CHOOSE i \in 1..Len(weights) :
        /\ \A j \in 1..Len(weights) : weights[i] <= weights[j]
        /\ \A j \in 1..(i - 1) : weights[i] < weights[j]

\* `weights.index(max(weights))`: the first position of the largest weight.
median_first_max(weights) ==
    CHOOSE i \in 1..Len(weights) :
        /\ \A j \in 1..Len(weights) : weights[j] <= weights[i]
        /\ \A j \in 1..(i - 1) : weights[j] < weights[i]

\* `any([j > midpoint for j in weights])`
median_any_above(weights, total) ==
    \E j \in 1..Len(weights) : 2 * weights[j] > total

RECURSIVE median_scan(_, _, _, _)
\* The while loop: below_midpoint_index and cumulative_weight when it ends,
\* or the IndexError of reading past the end of sorted_weights.
median_scan(sorted_weights, total, below_midpoint_index, cumulative_weight) ==
    IF 2 * cumulative_weight <= total
    THEN IF below_midpoint_index + 1 > Len(sorted_weights)
         THEN [exc |-> "IndexError", index |-> 0, cum |-> 0]
         ELSE median_scan(sorted_weights, total, below_midpoint_index + 1,
                          cumulative_weight + sorted_weights[below_midpoint_index + 1])
    ELSE [exc |-> "none", index |-> below_midpoint_index, cum |-> cumulative_weight]

\* `cumulative_weight - midpoint < sys.float_info.epsilon`: for integer
\* weights the difference is a multiple of 0.5, below epsilon when it is
\* not above 0.
median_at_midpoint(cumulative_weight, total) == 2 * cumulative_weight - total <= 0

\* The branch of weighted_median taken when some weight is above 0.
median_sorted(data, weights, total) ==
    LET f == sorted_order(data, weights)
        sorted_data == [i \in 1..Len(data) |-> data[f[i]]]
        sorted_weights == [i \in 1..Len(data) |-> weights[f[i]]]
        scan == median_scan(sorted_weights, total, 0, 0)
        below_midpoint_index == scan.index
        cumulative_weight == scan.cum - sorted_weights[below_midpoint_index]
        bounds == PySlice(sorted_data, below_midpoint_index - 2, below_midpoint_index)
    IN  IF scan.exc # "none"
        THEN MedianRaised(scan.exc)
        ELSE IF median_at_midpoint(cumulative_weight, total)
        THEN IF Len(bounds) = 0
             THEN MedianRaised("ZeroDivisionError")
             ELSE IF Len(bounds) = 1
             THEN MedianValue(2 * bounds[1])
             ELSE MedianValue(SeqSum(bounds))
        ELSE MedianValue(2 * sorted_data[below_midpoint_index])

\* weighted_median(data, weights) for a list of weights.
weighted_median(data, weights) ==
    LET total == SeqSum(weights)
    IN  IF median_any_above(weights, total)
        THEN MedianValue(2 * data[median_first_max(weights)])
        ELSE IF \E j \in 1..Len(weights) : weights[j] > 0
        THEN median_sorted(data, weights, total)
        ELSE MedianNone

MedianLists(lo, hi) == UNION {[1..n -> lo..hi] : n \in 1..MaxMedLen}

\* The call has bound data and, unless weights is None, a list of weights
\* of the same length.
InitMedian ==
    /\ wm_pc = "start"
    /\ wm_data \in MedianLists(0, MaxDatum)
    /\ wm_weighted \in BOOLEAN
    /\ wm_weights \in MedianLists(-1, MaxWeight) \cup {<<>>}
    /\ IF wm_weighted THEN Len(wm_weights) = Len(wm_data) ELSE wm_weights = <<>>
    /\ wm_res = MedianPending
    /\ na_pc = "idle"
    /\ na_args = [num |-> 0, lower |-> 0, upper |-> 0, b |-> FALSE]
    /\ na_res = NoResult
    /\ na_res2 = NoResult
    /\ rs_pc = "idle"
    /\ rs_seed = Scalar("None", 0)
    /\ rs_res = RsPending
    /\ pm_pc = "idle"
    /\ pm_cat1 = <<>>
    /\ pm_cat2 = <<>>
    /\ pm_r_kpc = 0
    /\ pm_include = FALSE
    /\ pm_i = 0
    /\ pm_num_pair = <<>>
    /\ pm_index_pair = <<>>
    /\ pm_ret = NoReturn
    /\ ic_pc = "idle"
    /\ ic_img = <<>>
    /\ ic_sig = "None"
    /\ ic_seg_1 = <<>>
    /\ ic_seg_2 = <<>>
    /\ ic_seg_3 = <<>>
    /\ ic_scale = <<>>
    /\ ic_noise = <<>>
    /\ ic_img_clean = <<>>

\* weighted_median(data), `return np.median(data)`
MedianCallPlain ==
    /\ wm_pc = "start"
    /\ ~wm_weighted
    /\ wm_res' = np_median(wm_data)
    /\ wm_pc' = "done"
    /\ UNCHANGED <<wm_data, wm_weights, wm_weighted>>
    /\ UNCHANGED <<na_vars, rs_vars, pm_vars, ic_vars>>

\* weighted_median(data, weights)
MedianCallWeighted ==
    /\ wm_pc = "start"
    /\ wm_weighted
    /\ wm_res' = weighted_median(wm_data, wm_weights)
    /\ wm_pc' = "done"
    /\ UNCHANGED <<wm_data, wm_weights, wm_weighted>>
    /\ UNCHANGED <<na_vars, rs_vars, pm_vars, ic_vars>>

(***************************************************************************)
(* Specifications                                                          *)
(***************************************************************************)

NextNorm == NormalizeCall \/ NormalizeAgain

SpecNorm == InitNorm /\ [][NextNorm]_vars

NextSeed == CheckRandomState

SpecSeed == InitSeed /\ [][NextSeed]_vars

NextPair == PairLoopBody \/ PairReturn

SpecPair == InitPair /\ [][NextPair]_vars

NextClean == CleanDetect1 \/ CleanDetect2 \/ CleanNoise \/ CleanFinish

SpecClean == InitClean /\ [][NextClean]_vars

NextMedian == MedianCallPlain \/ MedianCallWeighted

SpecMedian == InitMedian /\ [][NextMedian]_vars

(***************************************************************************)
(* normalize_angle: C1, C8, C10                                            *)
(***************************************************************************)

NormCalled == na_pc \in {"called", "again"}

\* C1: with lower < upper and b = False, normalize_angle returns a value r
\* with lower <= r < upper.
C1_InRange ==
    (NormCalled /\ ~na_args.b /\ na_args.lower < na_args.upper)
        => /\ na_res.exc = "none"
           /\ na_args.lower <= na_res.val
           /\ na_res.val < na_args.upper

\* C8 as stated: every call with lower >= upper raises ValueError, whatever
\* b is.
C8_RaisesForAnyB ==
    (NormCalled /\ na_args.lower >= na_args.upper) => na_res.exc = "ValueError"

\* C8 amended: every call with lower >= upper and b = False raises
\* ValueError and returns no value.
C8_RaisesWhenNotB ==
    (NormCalled /\ na_args.lower >= na_args.upper /\ ~na_args.b)
        => na_res.exc = "ValueError"

\* C8: a call with equal limits and b = False has raised ValueError.
C8_Witness ==
    /\ na_pc = "called"
    /\ na_args.lower = na_args.upper
    /\ ~na_args.b
    /\ na_res.exc = "ValueError"

\* C10: with lower < upper and b = False, normalizing the value that
\* normalize_angle returned returns that value again.
C10_Idempotent ==
    (na_pc = "again" /\ ~na_args.b /\ na_args.lower < na_args.upper)
        => na_res2 = na_res

(***************************************************************************)
(* check_random_state: C9                                                  *)
(***************************************************************************)

SeedIsIntList(seed) ==
    seed.kind = "list" /\ \A i \in 1..Len(seed.items) : seed.items[i].kind = "int"

\* The forms C9 calls accepted: None, an integer, a list of integers, an
\* existing RandomState.
SeedAccepted(seed) ==
    seed.kind \in {"None", "int", "RandomState"} \/ SeedIsIntList(seed)

SeedInRange(v) == v >= 0

Neighbours(obj1) ==
    {j \in 0..(Len(pm_cat2) - 1) :
        great_circle(obj1.ra, pm_cat2[j + 1].ra) * kpc_scale_erin(obj1.z_best)
            < pm_r_kpc}

\* C2: both outputs have one entry per catalog-1 object, in catalog-1 order,
\* and the index set of object i is exactly the catalog-2 positions inside
\* r_kpc of it.
C2_OnePerObject ==
    pm_pc = "done"
        => /\ pm_ret.returned
           /\ Len(pm_ret.num_pair) = Len(pm_cat1)
           /\ Len(pm_ret.index_pair) = Len(pm_cat1)
           /\ \A i \in 1..Len(pm_cat1) :
                 pm_ret.index_pair[i] = Neighbours(pm_cat1[i])

\* C2: two catalog-1 objects have been given different, non-empty index
\* sets, one of them short of all of catalog 2.
C2_Witness ==
    /\ pm_pc = "done"
    /\ Len(pm_cat1) = 2
    /\ pm_ret.index_pair[1] # {}
    /\ pm_ret.index_pair[2] # {}
    /\ pm_ret.index_pair[1] # pm_ret.index_pair[2]

\* C3 as stated: the index list does not depend on include, and the count
\* is the size of the index set less one exactly when include is false.
C3_LessOneWhenNotInclude ==
    pm_pc = "done"
        => \A i \in 1..Len(pm_cat1) :
             /\ pm_ret.index_pair[i] = Neighbours(pm_cat1[i])
             /\ pm_ret.num_pair[i] =
                   Cardinality(pm_ret.index_pair[i]) - (IF pm_include THEN 0 ELSE 1)

\* C3 amended: the index list does not depend on include, and the count is
\* the size of the index set less one exactly when include is true; when
\* include is false the count is the size of the index set.
C3_LessOneWhenInclude ==
    pm_pc = "done"
        => \A i \in 1..Len(pm_cat1) :
             /\ pm_ret.index_pair[i] = Neighbours(pm_cat1[i])
             /\ pm_ret.num_pair[i] =
                   Cardinality(pm_ret.index_pair[i]) - (IF pm_include THEN 1 ELSE 0)

\* C3: with include true, an object that is in catalog 2 itself has its
\* own position in the index set and a count one below the set's size.
C3_Witness ==
    /\ pm_pc = "done"
    /\ pm_include
    /\ \E i \in 1..Len(pm_cat1) :
          /\ \E j \in pm_ret.index_pair[i] : pm_cat2[j + 1].ra = pm_cat1[i].ra
          /\ pm_ret.num_pair[i] = Cardinality(pm_ret.index_pair[i]) - 1

\* The scenario of C4 for the catalog-1 object i: catalog 2 holds two rows,
\* one at the object's position and one elsewhere inside r_kpc.
PairScenario(i) ==
    /\ Len(pm_cat2) = 2
    /\ \E j \in 1..2 :
          /\ pm_cat2[j].ra = pm_cat1[i].ra
          /\ pm_cat2[j].dec = pm_cat1[i].dec
          /\ pm_cat2[3 - j].ra # pm_cat1[i].ra
          /\ great_circle(pm_cat1[i].ra, pm_cat2[3 - j].ra)
                * kpc_scale_erin(pm_cat1[i].z_best) < pm_r_kpc

\* C4: in that scenario the count is 2 with include = False and 1 with
\* include = True.
C4_SelfMatchScenario ==
    pm_pc = "done"
        => \A i \in 1..Len(pm_cat1) :
             PairScenario(i) => pm_ret.num_pair[i] = (IF pm_include THEN 1 ELSE 2)

\* C4: the scenario has been run with include = True and counted 1.
C4_Witness ==
    /\ pm_pc = "done"
    /\ pm_include
    /\ Len(pm_cat1) = 1
    /\ PairScenario(1)
    /\ pm_ret.num_pair = <<1>>

(***************************************************************************)
(* image_clean_up: C5, C6, C7                                              *)
(***************************************************************************)

Centre == <<Rows \div 2, Cols \div 2>>

\* p is flagged by pass 2 or by pass 3.
Flagged(p) == ic_seg_2[p] > 0 \/ ic_seg_3[p] > 0

\* p belongs to the object that pass 1 found at the centre pixel.
InCentralObject(p) == ic_seg_1[Centre] > 0 /\ ic_seg_1[p] = ic_seg_1[Centre]

\* C5: in the returned image a pixel flagged by seg_2 or seg_3 and outside
\* the central object's footprint holds the noise value, and every other
\* pixel holds the input value.
C5_OnlyFlaggedReplaced ==
    ic_pc = "done"
        => \A p \in Pixels :
             ic_img_clean[p] =
                 (IF Flagged(p) /\ ~InCentralObject(p) THEN ic_noise[p] ELSE ic_img[p])

\* C5: one pixel has been replaced by a noise value other than its input
\* value while another, flagged by neither map, kept its input value.
C5_Witness ==
    /\ ic_pc = "done"
    /\ \E p, q \in Pixels :
          /\ Flagged(p) /\ ~InCentralObject(p)
          /\ ic_img_clean[p] = ic_noise[p] /\ ic_noise[p] # ic_img[p]
          /\ ic_seg_2[q] = 0 /\ ic_seg_3[q] = 0
          /\ ic_img_clean[q] = ic_img[q]

\* C6: when seg_1 has a label above 0 at the centre pixel, every pixel with
\* that label keeps its input value.
C6_CentralObjectKept ==
    (ic_pc = "done" /\ ic_seg_1[Centre] > 0)
        => \A p \in Pixels :
             ic_seg_1[p] = ic_seg_1[Centre] => ic_img_clean[p] = ic_img[p]

\* C6: a pixel of the central object that seg_2 and seg_3 both flag, and
\* whose noise value differs from its input value, kept its input value.
C6_Witness ==
    /\ ic_pc = "done"
    /\ \E p \in Pixels :
          /\ InCentralObject(p)
          /\ ic_seg_2[p] > 0 /\ ic_seg_3[p] > 0
          /\ ic_noise[p] # ic_img[p]
          /\ ic_img_clean[p] = ic_img[p]

\* C7: when seg_1 is 0 at the centre pixel the call returns, and every
\* pixel flagged by seg_2 or seg_3 holds the noise value.
C7_NoExclusionWithoutCentre ==
    (ic_pc = "done" /\ ic_seg_1[Centre] = 0)
        => \A p \in Pixels : Flagged(p) => ic_img_clean[p] = ic_noise[p]

\* C7: with no central object, but another object in seg_1, the flagged
\* centre pixel has been replaced by its noise value.
C7_Witness ==
    /\ ic_pc = "done"
    /\ ic_seg_1[Centre] = 0
    /\ \E p \in Pixels : ic_seg_1[p] > 0
    /\ Flagged(Centre)
    /\ ic_img_clean[Centre] = ic_noise[Centre]
    /\ ic_noise[Centre] # ic_img[Centre]

(***************************************************************************)
(* weighted_median: C11, C14                                               *)
(***************************************************************************)

\* The weight at position i is the one weight above half of the total.
Dominant(i) ==
    /\ 2 * wm_weights[i] > SeqSum(wm_weights)
    /\ \A j \in 1..Len(wm_weights) :
          j # i => ~(2 * wm_weights[j] > SeqSum(wm_weights))

\* C11: when one weight is strictly greater than half of the total weight,
\* weighted_median returns the data point at that weight's position.
C11_DominantWeight ==
    (wm_pc = "done" /\ wm_weighted)
        => \A i \in 1..Len(wm_data) :
             Dominant(i) => wm_res = [exc |-> "none", none |-> FALSE,
                                      twice |-> 2 * wm_data[i]]

\* C11: three data points, the dominant weight on the last and largest of
\* them, which is not the smallest weight's point, and it was returned.
C11_Witness ==
    /\ wm_pc = "done"
    /\ wm_weighted
    /\ Len(wm_data) = 3
    /\ Dominant(3)
    /\ wm_weights[1] > 0 /\ wm_weights[2] > 0
    /\ wm_data[1] < wm_data[2] /\ wm_data[2] < wm_data[3]
    /\ wm_res.twice = 2 * wm_data[3]

\* The ordinary median of the data, doubled: the middle value of the sorted
\* data, or the sum of its two middle values.
TwiceMedian(data) ==
    LET n == Len(data)
        below(x) == Cardinality({i \in 1..n : data[i] < x})
        upto(x) == Cardinality({i \in 1..n : data[i] <= x})
        kth(k) == CHOOSE x \in {data[i] : i \in 1..n} : below(x) < k /\ k <= upto(x)
    IN  IF n % 2 = 1 THEN 2 * kth((n + 1) \div 2) ELSE kth(n \div 2) + kth(n \div 2 + 1)

\* C14: with at least three data points and equal positive weights,
\* weighted_median returns the ordinary median of the data.
C14_UniformIsMedian ==
    ( /\ wm_pc = "done"
      /\ wm_weighted
      /\ Len(wm_data) >= 3
      /\ wm_weights[1] > 0
      /\ \A j \in 1..Len(wm_weights) : wm_weights[j] = wm_weights[1] )
        => wm_res = [exc |-> "none", none |-> FALSE, twice |-> TwiceMedian(wm_data)]

(***************************************************************************)
(* image_clean_up: C12                                                     *)
(***************************************************************************)

\* C12: the scale given to np.random.normal is above 0 at every pixel,
\* with a sigma map and without one.
C12_ScalePositive ==
    ic_pc \in {"noise", "done"} => \A p \in Pixels : ic_scale[p] > 0

(***************************************************************************)
(* table_pair_match_physical: C13                                          *)
(***************************************************************************)

\* C13: every count returned is 0 or more.
C13_CountsNonNegative ==
    pm_pc = "done"
        => \A i \in 1..Len(pm_ret.num_pair) : pm_ret.num_pair[i] >= 0

====
